---- MODULE Spec2Model ----
(***************************************************************************)
(* Model of the knowledge base facade (src/search/knowledge_base.py) and   *)
(* of its ranking step (src/search/rank.py).                               *)
(*                                                                         *)
(* The search engine is the partial function docs (article_id -> stored    *)
(* fields) and the counter store the partial function counters             *)
(* (article_id -> view count).  Every public method is one action; each    *)
(* external call of a method either returns or raises, and the choice is   *)
(* an input of the action.  The block structure of knowledge_base.py is    *)
(* read with the tab width its author used (one tab = four columns).       *)
(***************************************************************************)
EXTENDS Integers, Sequences, FiniteSets, TLC

\* ------------------------------------------------------------------ bounds
MaxViews == 2        \* a counter is not incremented beyond this value
MaxLen == 3          \* longest input handed to Ranker.rank on its own
MaxScore == 2        \* scores of the inputs handed to Ranker.rank on its own

Ids == {"x1", "x2", "x3"}
Titles == {"Intro"}
Locales == {"en", "fr"}
Queries == {"Intro"}
None == "None"
\* locale arguments of search: absent, or a locale
LocaleArgs == {None} \cup Locales
\* refresh is handed to the engine unchanged; the calls below leave it at its default
Refresh == {TRUE}
Articles == [title : Titles, locale : Locales]

VARIABLES
    docs,       \* search engine: article_id -> stored fields (_source)
    counters,   \* counter store: article_id -> view count
    failed,     \* history: an external call has failed (transport error, store down)
    last,       \* the call that ran last: method, arguments, outcome of its external calls
    ret,        \* what that call returned, or the exception it raised
    pcG, pcD,   \* concurrent callers: position of the get and of the delete
    target,     \* concurrent callers: the article both work on
    trace,      \* concurrent callers: the external calls made so far, in order
    rankIn, rankOut, rankDone   \* Ranker.rank applied on its own

vars == <<docs, counters, failed, last, ret, pcG, pcD, target, trace,
          rankIn, rankOut, rankDone>>

concVars == <<pcG, pcD, target, trace>>
rankVars == <<rankIn, rankOut, rankDone>>

\* ------------------------------------------------------------ small helpers
Rev(s) == [i \in 1..Len(s) |-> s[Len(s) + 1 - i]]

Range(s) == {s[i] : i \in 1..Len(s)}

\* sequences without repetition over a set, of every length
InjSeqs(S) ==
    UNION {{s \in [1..n -> S] : \A i, j \in 1..n : i # j => s[i] # s[j]}
           : n \in 0..Cardinality(S)}

Digit(d) == <<"0", "1", "2", "3", "4", "5", "6", "7", "8", "9">>[d + 1]

\* str(n) of a non-negative integer: its decimal digits
RECURSIVE Str(_)
Str(n) == IF n < 10 THEN <<Digit(n)>> ELSE Str(n \div 10) \o <<Digit(n % 10)>>

\* ------------------------------------------------------------ counter store
\* redis.get: the stored value as a string, None for a missing key
RedisGet(c, k) == IF k \in DOMAIN c THEN <<"str", Str(c[k])>> ELSE <<None>>

RedisIncrByTwo(c, k) ==
    IF k \in DOMAIN c THEN [c EXCEPT ![k] = @ + 2] ELSE (k :> 2) @@ c

RedisIncrExisting(c, k) == IF k \in DOMAIN c THEN [c EXCEPT ![k] = @ + 1] ELSE c

\* redis.incr: INCR on a key that holds no value starts from 0
RedisIncr(c, k) ==
    IF k \in DOMAIN c THEN [c EXCEPT ![k] = @ + 1] ELSE (k :> 1) @@ c

RedisSetNothing(c, k, v) == c

RedisSetOne(c, k, v) == (k :> v + 1) @@ c

\* redis.set
RedisSet(c, k, v) == (k :> v) @@ c

RedisKeep(c, k) == c

\* redis.delete: removing a missing key changes nothing
RedisDelete(c, k) == [j \in DOMAIN c \ {k} |-> c[j]]

\* ------------------------------------------------------------------- Ranker
\* insertion of x behind every element whose key is <= its own: a stable
\* ascending sort
RECURSIVE InsertAsc(_, _)
InsertAsc(s, x) ==
    IF s = <<>> THEN <<x>>
    ELSE IF s[Len(s)][3] <= x[3] THEN Append(s, x)
    ELSE Append(InsertAsc(SubSeq(s, 1, Len(s) - 1), x), s[Len(s)])

RECURSIVE SortAsc(_)
SortAsc(s) ==
    IF s = <<>> THEN <<>>
    ELSE InsertAsc(SortAsc(SubSeq(s, 1, Len(s) - 1)), s[Len(s)])

SortedUnstable(s) == Rev(SortAsc(s))

\* sorted(unranked_results, key=lambda x: x[2], reverse=True): the list is
\* reversed, sorted stably in ascending key order, and reversed again
SortedReverse(s) == Rev(SortAsc(Rev(s)))

\* Ranker.rank(self, unranked_results)
rank(unranked_results) ==
    LET sorted_results == SortedReverse(unranked_results)
    IN  [i \in 1..Len(sorted_results) |->
            <<sorted_results[i][1], sorted_results[i][2]>>]

\* Ranker.rank(results) in search: rank is a plain method of Ranker, called
\* on the class, so the list is taken for self and the call raises
RankerRankCall(results) == <<"raise", "TypeError">>

\* ------------------------------------------------------- KnowledgeBase calls
NoMap == [k \in {} |-> 0]

Call(op, id, eng, ctr, hits) ==
    [op |-> op, id |-> id, eng |-> eng, ctr |-> ctr, hits |-> hits]

SeqFrame == UNCHANGED <<concVars, rankVars>>

\* get(article_id)
Get(article_id) ==
    \E e \in {"ok", "err"}, c \in {"ok", "err"} :
        LET eng == IF e = "err" THEN "err"
                   ELSE IF article_id \in DOMAIN docs THEN "ok" ELSE "notfound"
        IN  /\ (article_id \in DOMAIN counters => counters[article_id] < MaxViews)
            /\ IF eng # "ok"
               THEN \* client.get raised: the bare except returns None
                    /\ ret' = <<None>>
                    /\ last' = Call("get", article_id, eng, "none", <<>>)
                    /\ failed' = (failed \/ eng = "err")
                    /\ UNCHANGED <<docs, counters>>
               ELSE IF c = "err"
               THEN \* redis.incr raised in the else branch: nothing catches it
                    /\ ret' = <<"raise", "ConnectionError">>
                    /\ last' = Call("get", article_id, eng, "err", <<>>)
                    /\ failed' = TRUE
                    /\ UNCHANGED <<docs, counters>>
               ELSE /\ counters' = RedisIncr(counters, article_id)
                    /\ ret' = <<"source", docs[article_id]>>
                    /\ last' = Call("get", article_id, eng, "ok", <<>>)
                    /\ UNCHANGED <<docs, failed>>
            /\ SeqFrame

\* index(article, refresh).  No id is passed to client.index; the reply's
\* _id and created are whatever the index API answers: a new id with
\* created true, or the id of a stored document with created false.
Index(article, refresh) ==
    \E e \in {"ok", "err"}, c \in {"ok", "err"}, id \in Ids :
        LET created == id \notin DOMAIN docs
        IN  /\ IF e = "err"
               THEN \* client.index raised
                    /\ ret' = <<"pair", FALSE, None>>
                    /\ last' = Call("index", None, "err", "none", <<>>)
                    /\ failed' = TRUE
                    /\ UNCHANGED <<docs, counters>>
               ELSE IF c = "err"
               THEN \* redis.set raised in the else branch
                    /\ docs' = (id :> article) @@ docs
                    /\ ret' = <<"raise", "ConnectionError">>
                    /\ last' = Call("index", id, "ok", "err", <<>>)
                    /\ failed' = TRUE
                    /\ UNCHANGED counters
               ELSE /\ docs' = (id :> article) @@ docs
                    /\ counters' = RedisSet(counters, id, 0)
                    /\ ret' = <<"pair", created, id>>
                    /\ last' = Call("index", id, "ok", "ok", <<>>)
                    /\ UNCHANGED failed
            /\ SeqFrame

\* delete(article_id, refresh).  For an id that is not stored the client
\* either raises NotFoundError or hands back a reply with found false.
Delete(article_id, refresh) ==
    \E e \in {"ok", "err"}, c \in {"ok", "err"}, miss \in {"notfound", "foundfalse"} :
        LET eng == IF e = "err" THEN "err"
                   ELSE IF article_id \in DOMAIN docs THEN "ok" ELSE miss
            found == article_id \in DOMAIN docs
        IN  /\ IF eng \in {"err", "notfound"}
               THEN \* client.delete raised
                    /\ ret' = <<"bool", FALSE>>
                    /\ last' = Call("delete", article_id, eng, "none", <<>>)
                    /\ failed' = (failed \/ eng = "err")
                    /\ UNCHANGED <<docs, counters>>
               ELSE IF c = "err"
               THEN \* redis.delete raised in the else branch
                    /\ docs' = [j \in DOMAIN docs \ {article_id} |-> docs[j]]
                    /\ ret' = <<"raise", "ConnectionError">>
                    /\ last' = Call("delete", article_id, eng, "err", <<>>)
                    /\ failed' = TRUE
                    /\ UNCHANGED counters
               ELSE /\ docs' = [j \in DOMAIN docs \ {article_id} |-> docs[j]]
                    /\ counters' = RedisDelete(counters, article_id)
                    /\ ret' = <<"bool", found>>
                    /\ last' = Call("delete", article_id, eng, "ok", <<>>)
                    /\ UNCHANGED failed
            /\ SeqFrame

\* the documents a query may return: all of them, or those of the locale
Candidates(locale) ==
    IF locale \in {None, ""} THEN DOMAIN docs
    ELSE {j \in DOMAIN docs : docs[j].locale = locale}

\* the list search builds: (article_id, title, redis.get(article_id)) per hit
Enriched(hits) ==
    [i \in 1..Len(hits) |->
        <<hits[i], docs[hits[i]].title, RedisGet(counters, hits[i])>>]

SearchCounting(query_text, locale) ==
    /\ \/ \* s.execute() raised: search has no try
          /\ ret' = <<"raise", "TransportError">>
          /\ last' = Call("search", None, "err", "none", <<>>)
          /\ failed' = TRUE
       \/ \E hits \in InjSeqs(Candidates(locale)) :
            \E c \in (IF hits = <<>> THEN {"none"} ELSE {"ok", "err"}) :
              IF c = "err"
              THEN \* redis.get raised
                   /\ ret' = <<"raise", "ConnectionError">>
                   /\ last' = Call("search", None, "ok", "err", hits)
                   /\ failed' = TRUE
              ELSE /\ ret' = RankerRankCall(Enriched(hits))
                   /\ last' = Call("search", None, "ok", c, hits)
                   /\ UNCHANGED failed
    /\ counters' = [k \in DOMAIN counters |->
                        IF k \in Range(last'.hits) /\ last'.ctr = "ok"
                        THEN counters[k] + 1 ELSE counters[k]]
    /\ UNCHANGED docs
    /\ SeqFrame

\* search(query_text, locale): the hits are any of the candidates, in the
\* order of the engine's relevance score
Search(query_text, locale) ==
    /\ \/ \* s.execute() raised: search has no try
          /\ ret' = <<"raise", "TransportError">>
          /\ last' = Call("search", None, "err", "none", <<>>)
          /\ failed' = TRUE
       \/ \E hits \in InjSeqs(Candidates(locale)) :
            \E c \in (IF hits = <<>> THEN {"none"} ELSE {"ok", "err"}) :
              IF c = "err"
              THEN \* redis.get raised
                   /\ ret' = <<"raise", "ConnectionError">>
                   /\ last' = Call("search", None, "ok", "err", hits)
                   /\ failed' = TRUE
              ELSE /\ ret' = RankerRankCall(Enriched(hits))
                   /\ last' = Call("search", None, "ok", c, hits)
                   /\ UNCHANGED failed
    /\ UNCHANGED <<docs, counters>>
    /\ SeqFrame

\* KnowledgeBase(): two connections, nothing stored through this object yet
Init ==
    /\ docs = NoMap
    /\ counters = NoMap
    /\ failed = FALSE
    /\ last = Call("init", None, "none", "none", <<>>)
    /\ ret = <<None>>
    /\ pcG = "idle" /\ pcD = "idle" /\ target = None /\ trace = <<>>
    /\ rankIn = <<>> /\ rankOut = <<>> /\ rankDone = FALSE

Next ==
    \/ \E id \in Ids : Get(id)
    \/ \E a \in Articles, r \in Refresh : Index(a, r)
    \/ \E id \in Ids, r \in Refresh : Delete(id, r)
    \/ \E q \in Queries, l \in LocaleArgs : Search(q, l)

Spec == Init /\ [][Next]_vars

\* --------------------------------------------------- Ranker.rank on its own
Triples == Ids \X Titles \X (0..MaxScore)

InitRank ==
    /\ rankIn \in UNION {[1..n -> Triples] : n \in 0..MaxLen}
    /\ rankOut = <<>> /\ rankDone = FALSE
    /\ docs = NoMap /\ counters = NoMap /\ failed = FALSE
    /\ last = Call("init", None, "none", "none", <<>>)
    /\ ret = <<None>>
    /\ pcG = "idle" /\ pcD = "idle" /\ target = None /\ trace = <<>>

RankStep ==
    /\ ~rankDone
    /\ rankOut' = rank(rankIn)
    /\ rankDone' = TRUE
    /\ UNCHANGED <<rankIn, docs, counters, failed, last, ret, concVars>>

NextRank == RankStep

SpecRank == InitRank /\ [][NextRank]_vars

\* ------------------------------- get(X) and delete(X) by concurrent callers
\* Each caller runs its method one external call at a time.  The stores
\* start in a state the calls above leave behind when nothing has failed:
\* every article has a counter, and X is one of the articles.
StoredSets == {S \in SUBSET Ids : S # {}}

InitRace ==
    /\ \E S \in StoredSets :
          /\ docs \in [S -> Articles]
          /\ counters \in [S -> 0..MaxViews]
          /\ target \in S
    /\ pcG = "idle" /\ pcD = "idle" /\ trace = <<>>
    /\ ret = [get |-> <<"pending">>, delete |-> <<"pending">>]
    /\ failed = FALSE
    /\ last = Call("init", None, "none", "none", <<>>)
    /\ rankIn = <<>> /\ rankOut = <<>> /\ rankDone = FALSE

RaceFrame == UNCHANGED <<target, failed, last, rankVars>>

\* get: client.get
GetFetch ==
    /\ pcG = "idle"
    /\ trace' = Append(trace, "get.fetch")
    /\ IF target \in DOMAIN docs
       THEN /\ ret' = [ret EXCEPT !.get = <<"response", docs[target]>>]
            /\ pcG' = "fetched"
       ELSE /\ ret' = [ret EXCEPT !.get = <<None>>]
            /\ pcG' = "done"
    /\ UNCHANGED <<docs, counters, pcD>>
    /\ RaceFrame

\* get: redis.incr, then return response['_source']
GetIncr ==
    /\ pcG = "fetched"
    /\ trace' = Append(trace, "get.incr")
    /\ counters' = RedisIncr(counters, target)
    /\ ret' = [ret EXCEPT !.get = <<"source", ret.get[2]>>]
    /\ pcG' = "done"
    /\ UNCHANGED <<docs, pcD>>
    /\ RaceFrame

\* delete: client.delete
DeleteEngine ==
    /\ pcD = "idle"
    /\ trace' = Append(trace, "delete.engine")
    /\ IF target \in DOMAIN docs
       THEN /\ docs' = [j \in DOMAIN docs \ {target} |-> docs[j]]
            /\ ret' = [ret EXCEPT !.delete = <<"response", TRUE>>]
            /\ pcD' = "deleted"
       ELSE /\ ret' = [ret EXCEPT !.delete = <<"bool", FALSE>>]
            /\ pcD' = "done"
            /\ UNCHANGED docs
    /\ UNCHANGED <<counters, pcG>>
    /\ RaceFrame

\* delete: redis.delete, then return response['found']
DeleteCounter ==
    /\ pcD = "deleted"
    /\ trace' = Append(trace, "delete.counter")
    /\ counters' = RedisDelete(counters, target)
    /\ ret' = [ret EXCEPT !.delete = <<"bool", ret.delete[2]>>]
    /\ pcD' = "done"
    /\ UNCHANGED <<docs, pcG>>
    /\ RaceFrame

NextRace == GetFetch \/ GetIncr \/ DeleteEngine \/ DeleteCounter

SpecRace == InitRace /\ [][NextRace]_vars

\* ------------------------------------------------------------------ claims
\* the view count a reader of the counter store takes for an id
Views(c, id) == IF id \in DOMAIN c THEN c[id] ELSE 0

\* C3: as long as no external call has failed, the counter store holds an
\* entry for an id exactly when the search engine holds an article of that id
C3_CounterIffArticle == ~failed => DOMAIN counters = DOMAIN docs

\* an article was deleted without any failure while another, viewed, stays
C3_Witness ==
    /\ ~failed
    /\ last.op = "delete" /\ ret = <<"bool", TRUE>>
    /\ \E id \in DOMAIN docs : id \in DOMAIN counters /\ counters[id] > 0

\* C4: a get whose fetch succeeds adds exactly 1 to the counter of that id,
\* leaves every other counter and the articles alone and returns the stored
\* fields; a get whose fetch fails or finds nothing returns None and writes
\* nothing to the counter store
C4_GetCountsOneView ==
    [][last'.op = "get" =>
        LET id == last'.id IN
        /\ (id \in DOMAIN docs /\ last'.eng = "ok" /\ last'.ctr = "ok") =>
              /\ DOMAIN counters' = DOMAIN counters \cup {id}
              /\ counters'[id] = Views(counters, id) + 1
              /\ \A k \in DOMAIN counters \ {id} : counters'[k] = counters[k]
              /\ ret' = <<"source", docs[id]>>
              /\ docs' = docs
        /\ (id \notin DOMAIN docs \/ last'.eng # "ok") =>
              /\ ret' = <<None>>
              /\ last'.ctr = "none"
              /\ counters' = counters
              /\ docs' = docs
    ]_vars

\* an article was read twice while another article has a counter of its own
C4_Witness ==
    /\ last.op = "get" /\ ret[1] = "source"
    /\ counters[last.id] = 2
    /\ \E k \in DOMAIN counters : k # last.id

C6_DeleteRemovesCounter ==
    [][last'.op = "delete" =>
        LET id == last'.id IN
        /\ (id \in DOMAIN docs /\ last'.eng = "ok" /\ last'.ctr = "ok") =>
              /\ id \notin DOMAIN docs'
              /\ id \notin DOMAIN counters'
              /\ ret' = <<"bool", TRUE>>
              /\ \A k \in DOMAIN counters \ {id} :
                    k \in DOMAIN counters' /\ counters'[k] = counters[k]
        /\ (last'.eng = "foundfalse" /\ last'.ctr = "ok") =>
              /\ ret' = <<"bool", FALSE>>
              /\ id \notin DOMAIN counters'
              /\ docs' = docs
        /\ last'.eng \in {"err", "notfound"} =>
              /\ ret' = <<"bool", FALSE>>
              /\ counters' = counters
              /\ docs' = docs
    ]_vars

\* a viewed article was deleted while another article stays
C6_Witness ==
    /\ last.op = "delete" /\ last.eng = "ok" /\ ret = <<"bool", TRUE>>
    /\ last.id \notin DOMAIN docs /\ last.id \notin DOMAIN counters
    /\ \E k \in DOMAIN docs : k \in DOMAIN counters

\* C7: a search changes neither the counter store nor the articles
C7_SearchWritesNothing ==
    [][last'.op = "search" => counters' = counters /\ docs' = docs]_vars

\* a search read the counters of two hits, one of them viewed
C7_Witness ==
    /\ last.op = "search" /\ last.ctr = "ok"
    /\ Len(last.hits) >= 2
    /\ \E i \in 1..Len(last.hits) : Views(counters, last.hits[i]) > 0

\* the pairs of a result are ordered by view count, highest first
RankedByViews(result) ==
    \A i, j \in 1..Len(result) :
        Views(counters, result[i][1]) > Views(counters, result[j][1]) => i < j

\* hits of equal view count keep the order the engine gave them
KeepsEngineOrder(result, hits) ==
    \A i, j \in 1..Len(hits) :
        (i < j /\ Views(counters, hits[i]) = Views(counters, hits[j])) =>
            \E a, b \in 1..Len(result) :
                a < b /\ result[a][1] = hits[i] /\ result[b][1] = hits[j]

OnePairPerHit(result, hits) ==
    /\ Len(result) = Len(hits)
    /\ \A i \in 1..Len(hits) :
          \E a \in 1..Len(result) :
              result[a] = <<hits[i], docs[hits[i]].title>>

\* C1: a search whose query and counter reads succeed returns one
\* (article_id, title) pair per hit, ordered by view count, highest first
C1_SearchRanksByViews ==
    (last.op = "search" /\ last.eng = "ok" /\ last.ctr = "ok") =>
        /\ ret[1] = "list"
        /\ OnePairPerHit(ret[2], last.hits)
        /\ RankedByViews(ret[2])

\* C8: a search with a hit that has no counter entry returns, and orders
\* that hit as a hit with a counter of 0
C8_MissingCounterIsZero ==
    (/\ last.op = "search" /\ last.eng = "ok" /\ last.ctr = "ok"
     /\ \E i \in 1..Len(last.hits) : last.hits[i] \notin DOMAIN counters) =>
        /\ ret[1] = "list"
        /\ OnePairPerHit(ret[2], last.hits)
        /\ RankedByViews(ret[2])
        /\ KeepsEngineOrder(ret[2], last.hits)

\* C9: a get whose fetch succeeds and whose increment fails still returns
\* the stored fields
C9_GetSurvivesCounterFailure ==
    (last.op = "get" /\ last.eng = "ok" /\ last.ctr = "err") =>
        ret = <<"source", docs[last.id]>>

Perms(n) == {p \in [1..n -> 1..n] : \A i, j \in 1..n : i # j => p[i] # p[j]}

\* C2: rank is a stable descending sort by score: the output is the input
\* with the scores dropped, rearranged so that scores do not increase and
\* items of equal score keep their order
C2_RankStableDescending ==
    rankDone =>
        /\ Len(rankOut) = Len(rankIn)
        /\ \E p \in Perms(Len(rankIn)) :
              /\ \A i \in 1..Len(rankIn) :
                    rankOut[i] = <<rankIn[p[i]][1], rankIn[p[i]][2]>>
              /\ \A i, j \in 1..Len(rankIn) :
                    i < j =>
                        /\ rankIn[p[i]][3] >= rankIn[p[j]][3]
                        /\ rankIn[p[i]][3] = rankIn[p[j]][3] => p[i] < p[j]
        /\ (\A i, j \in 1..Len(rankIn) : rankIn[i][3] = rankIn[j][3]) =>
              rankOut = [i \in 1..Len(rankIn) |-> <<rankIn[i][1], rankIn[i][2]>>]

\* two items of equal score ahead of one of a higher score
C2_Witness ==
    /\ rankDone
    /\ rankIn = << <<"x1", "Intro", 1>>, <<"x2", "Intro", 1>>, <<"x3", "Intro", 2>> >>
    /\ rankOut = << <<"x3", "Intro">>, <<"x1", "Intro">>, <<"x2", "Intro">> >>

Before(a, b) ==
    \E i, j \in 1..Len(trace) : i < j /\ trace[i] = a /\ trace[j] = b

\* C10: when get(X) and delete(X) have both finished, article X is gone,
\* and a counter entry for X is left exactly when the increment of the get
\* came after the counter delete of the delete; the entry then holds 1
C10_IncrementAfterDeleteLeavesCounter ==
    (pcG = "done" /\ pcD = "done") =>
        /\ target \notin DOMAIN docs
        /\ target \in DOMAIN counters <=> Before("delete.counter", "get.incr")
        /\ target \in DOMAIN counters =>
              counters[target] = 1 /\ ret.get[1] = "source"

\* both calls finished, the article is gone and its counter exists
C10_Witness ==
    /\ pcG = "done" /\ pcD = "done"
    /\ ret.delete = <<"bool", TRUE>>
    /\ target \notin DOMAIN docs
    /\ target \in DOMAIN counters

====
